---- MODULE Spec2Model ----
(***************************************************************************)
(* Model of mri_tools/viz/fmriplots_modAT.py: the fMRIPlot object          *)
(* (__init__, add_confounds, add_spikes, plot), the carpet plot            *)
(* (fmricarpetplot) and the part of confoundplot that touches its          *)
(* arguments.                                                              *)
(*                                                                         *)
(* Conventions.  A volume is flattened: voxel positions are 1..NVox and a  *)
(* segmentation is the sequence of its labels.  Row and column indices     *)
(* stored in the state are 0-based, as in the source; positions inside a   *)
(* TLA+ sequence are 1-based.  A Python value that may be None is a        *)
(* sequence of length 0 (None) or 1 (the value).  Times are in hundredths  *)
(* of a second, so that '%.02f' is exact on them.                          *)
(***************************************************************************)
EXTENDS Integers, Sequences, FiniteSets, TLC

\* ---------------------------------------------------------------- bounds
NVox == 4
MaxConfounds == 2
MaxSpikes == 2
MaxPlots == 2

\* The label values a segmentation is drawn from: 0 (excluded), one or two
\* labels inside each band, the band boundaries 100 and 30, and 20, which no
\* band holds.
Labels == {0, 5, 20, 30, 50, 100, 120, 150, 255}

None == <<>>
Some(x) == <<x>>

Max(a, b) == IF a >= b THEN a ELSE b

Range(s) == {s[i] : i \in 1..Len(s)}

\* ------------------------------------------------------- fmricarpetplot
\* func_data[segmentation > 0]: the rows of the voxels with a positive label,
\* in flattened order.
RECURSIVE MaskedFrom(_, _, _)
MaskedFrom(values, segm, i) ==
    IF i > Len(segm) THEN <<>>
    ELSE (IF segm[i] > 0 THEN <<values[i]>> ELSE <<>>) \o MaskedFrom(values, segm, i + 1)

\* A plausible slip: masking with the band test instead of `> 0`.
RECURSIVE MaskedBandsFrom(_, _, _)
MaskedBandsFrom(values, segm, i) ==
    IF i > Len(segm) THEN <<>>
    ELSE (IF \/ (segm[i] > 100 /\ segm[i] < 200)
             \/ (segm[i] > 30 /\ segm[i] < 100)
             \/ segm[i] = 255
             \/ (segm[i] > 0 /\ segm[i] < 10)
          THEN <<values[i]>> ELSE <<>>) \o MaskedBandsFrom(values, segm, i + 1)

Masked_dropping_unbanded(values, segm) == MaskedBandsFrom(values, segm, 1)

Masked(values, segm) == MaskedFrom(values, segm, 1)

\* np.unique: the distinct values, ascending.
RECURSIVE Ascending(_)
Ascending(S) ==
    IF S = {} THEN <<>>
    ELSE LET m == CHOOSE x \in S : \A y \in S : x <= y
         IN  <<m>> \o Ascending(S \ {m})

RECURSIVE Descending(_)
Descending(S) ==
    IF S = {} THEN <<>>
    ELSE LET m == CHOOSE x \in S : \A y \in S : x >= y
         IN  <<m>> \o Descending(S \ {m})

unique_descending(seg) == Descending(Range(seg))

unique(seg) == Ascending(Range(seg))

cort_gm_from_150(labs) == SelectSeq(labs, LAMBDA l : l > 150 /\ l < 200)

cort_gm(labs) == SelectSeq(labs, LAMBDA l : l > 100 /\ l < 200)

deep_gm(labs) == SelectSeq(labs, LAMBDA l : l > 30 /\ l < 100)

cerebellum == <<255>>

wm_csf(labs) == SelectSeq(labs, LAMBDA l : l < 10)

seg_labels_wm_first(seg) ==
    LET labs == unique(seg)
    IN  cort_gm(labs) \o deep_gm(labs) \o wm_csf(labs) \o cerebellum

\* seg_labels after line 134: the four bands concatenated.
seg_labels(seg) ==
    LET labs == unique(seg)
    IN  cort_gm(labs) \o deep_gm(labs) \o cerebellum \o wm_csf(labs)

\* The loop of lines 136-140 over labs[k..], label_id = k - 1 on entry.
RECURSIVE RelabelFrom(_, _, _, _)
RelabelFrom(seg, labs, k, acc) ==
    IF k > Len(labs) THEN acc
    ELSE RelabelFrom(seg, labs, k + 1,
                     [i \in 1..Len(seg) |-> IF seg[i] = labs[k] THEN k - 1 ELSE acc[i]])

\* newsegm: zeros_like(seg), then the rank of each listed label.
relabel(seg) ==
    RelabelFrom(seg, seg_labels(seg), 1, [i \in 1..Len(seg) |-> 0])

\* The orders in which the indices in `left` (1-based) can be listed so that
\* their keys never decrease: the next index is any one holding the least key.
RECURSIVE SortingOrders(_, _)
SortingOrders(keys, left) ==
    IF left = {} THEN {<<>>}
    ELSE LET least == {i \in left : \A j \in left : keys[i] <= keys[j]}
         IN  UNION {{<<i - 1>> \o p : p \in SortingOrders(keys, left \ {i})} : i \in least}

\* A plausible slip: sorting a slice that misses the last row.
argsort_all_but_last(keys) == SortingOrders(keys, 1..(Len(keys) - 1))

\* np.argsort(keys) with the default kind (quicksort, not stable): some
\* permutation of 0..n-1 that puts the keys in non-decreasing order; the order
\* among equal keys is whatever the build's sort produces.
argsort(keys) == SortingOrders(keys, 1..Len(keys))

\* order applied to the rows of a matrix: matrix[order, :].
take(rows, ord) == [i \in 1..Len(ord) |-> rows[ord[i] + 1]]

long_cutoff == 800

\* The columns of a slice of the series: how many they are and how many frames
\* lie between two of them; column j (0-based) holds frame j * step.
\* detrended[order, ::2]:
every_second(n) == [count |-> (n + 1) \div 2, step |-> 2]

\* detrended[order, :]:
every(n) == [count |-> n, step |-> 1]

\* Lines 167-176: the columns of the rendered matrix.  Only raw data is
\* decimated; a statistical map keeps every column.
columns(st, n) ==
    IF ~st THEN (IF n > long_cutoff THEN every_second(n) ELSE every(n))
    ELSE every(n)

carpet_cmap(st) == IF ~st THEN "gray" ELSE "Spectral_r"

range_unset_for_stat(st, mr) ==
    IF mr = None THEN (IF st THEN None ELSE <<-2, 2>>) ELSE mr[1]

\* Lines 179-180: the display range, (-2, 2) when map_range is None.  The
\* result is the pair handed to imshow as vmin, vmax.
display_range(st, mr) == IF mr = None THEN <<-2, 2>> ELSE mr[1]

\* Lines 190-191: the tick positions, as column indices of the rendered matrix.
tick_interval(ncols) == Max((ncols + 1) \div 10, 1)

xticks_of(ncols) ==
    IF ncols = 0 THEN <<>>
    ELSE [k \in 1..(((ncols - 1) \div tick_interval(ncols)) + 1) |->
             (k - 1) * tick_interval(ncols)]

\* '%.02f' % t for t in hundredths: the digits before and after the point.
fmt02(t) == <<t \div 100, t % 100>>

\* str of an integer tick (set_xticklabels of an integer array).
fmt_int(n) == <<n>>

\* Lines 194-203.  long_cutoff is a local bound by line 169 only, inside
\* `if not stat`; line 201 reads it whenever tr was supplied.
tick_labels(st, t, nt, ticks) ==
    IF t = None
    THEN [pc |-> "done", xlabel |-> "Frame #",
          xticklabels |-> [k \in 1..Len(ticks) |-> fmt_int(ticks[k])]]
    ELSE IF st
    THEN [pc |-> "UnboundLocalError", xlabel |-> "time (s)", xticklabels |-> <<>>]
    ELSE [pc |-> "done", xlabel |-> "time (s)",
          xticklabels |-> [k \in 1..Len(ticks) |->
                              fmt02((IF nt > long_cutoff THEN 2 ELSE 1) * t[1] * ticks[k])]]

\* The axes of the carpet image before anything is drawn.
NoAxes == [rows |-> <<>>, cols |-> every(0), cmap |-> "", vlim |-> <<>>,
           xticks |-> <<>>, xlabel |-> "", xticklabels |-> <<>>, status |-> ""]

\* Lines 162-203: what fmricarpetplot draws on ax1 given the reordered rows,
\* and how it ends (field status).
carpet_axes(rows, st, mr, t, nt) ==
    LET cols == columns(st, nt)
        ticks == xticks_of(cols.count)
        lab == tick_labels(st, t, nt, ticks)
    IN  [rows |-> rows, cols |-> cols, cmap |-> carpet_cmap(st),
         vlim |-> display_range(st, mr),
         xticks |-> ticks, xlabel |-> lab.xlabel,
         xticklabels |-> lab.xticklabels, status |-> lab.pc]

\* ------------------------------------------------------------- fMRIPlot
VARIABLES
    func_data,      \* the 4D volume: per voxel position, the identity of its time series
    ntsteps,        \* func_data.shape[-1]
    segmentation,   \* seg_data: per voxel position, its label
    stat,           \* stat / self.stat_map
    map_range,      \* None or Some(<<vmin, vmax>>)
    tr,             \* None or Some(seconds * 100)
    confounds,      \* self.confounds: <<tseries, kwargs>> entries
    spikes,         \* self.spikes: <<tsz, title, zscored>> entries
    nplots,         \* how many times plot() has run
    grid,           \* the GridSpec of the last plot(): per row, the plots drawn in it
    lines,          \* per confound of the last plot(), the threshold lines drawn
    newsegm,        \* the rank of each masked voxel (last carpet plot)
    order,          \* the row permutation (last carpet plot)
    ax1,            \* the carpet image and its x axis (last carpet plot)
    pc              \* "ready", or how the last call ended

vars == <<func_data, ntsteps, segmentation, stat, map_range, tr, confounds, spikes,
          nplots, grid, lines, newsegm, order, ax1, pc>>

\* Inputs the calls are tried on.
TrValues == {50, 200}
TrArgs == {None} \cup {Some(t) : t \in TrValues}
NtSmall == 3
NtValues == {NtSmall, 25, 800, 801, 802, 1000}
MapRanges == {None, Some(<<-1, 1>>), Some(<<0, 5>>)}
\* A volume of n voxels; each time series is known by its voxel position.
Volume(n) == [i \in 1..n |-> i]

\* Segmentations of one tissue with one voxel left out.
OneTissue == {[i \in 1..NVox |-> IF i = k THEN 0 ELSE l] : k \in 1..NVox, l \in {5, 150}}

\* The segmentations an fMRIPlot is built on: a loaded one, and, for seg=None,
\* self.seg_data = 2 * self.mask_data of a binary mask (lines 40-43).
LoadedSeg == [i \in 1..NVox |-> IF i = 1 THEN 5 ELSE IF i = 2 THEN 150 ELSE 0]
BinaryMask == [i \in 1..NVox |-> IF i <= 2 THEN 1 ELSE 0]
init_seg_data(seg, mask) == IF seg = None THEN [i \in 1..Len(mask) |-> 2 * mask[i]] ELSE seg[1]

\* The state before any call has drawn anything.
Blank ==
    /\ nplots = 0
    /\ grid = <<>>
    /\ lines = <<>>
    /\ newsegm = <<>>
    /\ order = <<>>
    /\ ax1 = NoAxes
    /\ pc = "ready"

\* fmricarpetplot(func_data, segmentation, outer_gs, stat, map_range, tr): the
\* steps of lines 121-203 on the arguments held in the state.
fmricarpetplot ==
    /\ newsegm' = relabel(Masked(segmentation, segmentation))
    /\ order' \in argsort(newsegm')
    /\ ax1' = carpet_axes(take(Masked(func_data, segmentation), order'),
                          stat, map_range, tr, ntsteps)
    /\ pc' = ax1'.status

\* A direct call of fmricarpetplot.
CallCarpet ==
    /\ pc = "ready"
    /\ fmricarpetplot
    /\ UNCHANGED <<func_data, ntsteps, segmentation, stat, map_range, tr, confounds,
                   spikes, nplots, grid, lines>>

\* Direct calls on every segmentation over Labels.
InitOrder ==
    /\ Blank
    /\ segmentation \in [1..NVox -> Labels]
    /\ func_data = Volume(NVox)
    /\ stat = FALSE
    /\ tr = None
    /\ ntsteps = NtSmall
    /\ map_range = None
    /\ confounds = <<>>
    /\ spikes = <<>>

NextCarpet == CallCarpet

SpecOrder == InitOrder /\ [][NextCarpet]_vars

\* Direct calls on the segmentations whose voxels with a label all differ in it.
InitDistinct ==
    /\ InitOrder
    /\ \A i, j \in 1..NVox :
          (segmentation[i] > 0 /\ segmentation[i] = segmentation[j]) => i = j

SpecDistinct == InitDistinct /\ [][NextCarpet]_vars

\* Direct calls on every combination of stat, tr, series length and map_range.
InitRender ==
    /\ Blank
    /\ segmentation \in OneTissue
    /\ func_data = Volume(NVox)
    /\ stat \in BOOLEAN
    /\ tr \in TrArgs
    /\ ntsteps \in NtValues
    /\ map_range \in MapRanges
    /\ confounds = <<>>
    /\ spikes = <<>>

SpecRender == InitRender /\ [][NextCarpet]_vars

\* Direct calls on the volumes of NVox + 2 voxels that hold the labels 150, 50,
\* 255 and 5 once each and 0 elsewhere.
FourLabels == {150, 50, 255, 5}
FourLabelSegs ==
    {s \in [1..(NVox + 2) -> FourLabels \cup {0}] :
        \A l \in FourLabels : Cardinality({i \in 1..(NVox + 2) : s[i] = l}) = 1}

InitFour ==
    /\ Blank
    /\ segmentation \in FourLabelSegs
    /\ func_data = Volume(NVox + 2)
    /\ stat = FALSE
    /\ tr = None
    /\ ntsteps = NtSmall
    /\ map_range = None
    /\ confounds = <<>>
    /\ spikes = <<>>

SpecFour == InitFour /\ [][NextCarpet]_vars

\* ---------------------------------------------- fMRIPlot: the object's life
\* What callers hand to add_confounds: the series (kept as its mean, 400, a
\* multiple of the tr values, so that tseries / tr is exact) and the
\* descriptor.  A descriptor without 'cutoff' is one with cutoff None.
ConfoundArgs ==
    {<<400, [name |-> "FD", normalize |-> TRUE, cutoff |-> None]>>,
     <<400, [name |-> "DVARS", normalize |-> FALSE, cutoff |-> Some(<<>>)]>>,
     <<400, [name |-> "aCompCor", normalize |-> TRUE, cutoff |-> Some(<<300>>)]>>}
SpikeArgs == {<<"tsz", "Spikes A", TRUE>>, <<"air", "Spikes B", FALSE>>}

\* Lines 51-57: the global-signal confound; its cutoffs are the 5th and 95th
\* percentiles of the series.
gs_cf == <<400, [name |-> "Global signal", normalize |-> FALSE,
                        cutoff |-> Some(<<380, 420>>)]>>

\* Lines 59-67: one confound per entry of seg_cf_labels, in the dict's order.
label_cf(names) ==
    [k \in 1..Len(names) |->
        <<400, [name |-> names[k], normalize |-> FALSE,
                       cutoff |-> Some(<<380, 420>>)]>>]

\* self.confounds after __init__ (lines 35, 51-67).
init_confounds(add_gs_cf, names) ==
    (IF add_gs_cf THEN <<gs_cf>> ELSE <<>>) \o label_cf(names)

\* Lines 37-38: a raw series without tr takes it from the header's zooms.
init_tr(tr_arg, st, zoom) == IF tr_arg = None /\ ~st THEN Some(zoom) ELSE tr_arg

\* fMRIPlot.__init__ (lines 26-69).
Init ==
    /\ Blank
    /\ ntsteps = NtSmall
    /\ \E seg \in {None, Some(LoadedSeg)} : segmentation = init_seg_data(seg, BinaryMask)
    /\ func_data = Volume(NVox)
    /\ stat \in BOOLEAN
    /\ map_range = None
    /\ \E tr_arg \in {None, Some(50)} : tr = init_tr(tr_arg, stat, 200)
    /\ \E add_gs_cf \in BOOLEAN, names \in {<<>>, <<"WM">>} :
          confounds = init_confounds(add_gs_cf, names)
    /\ spikes = <<>>

\* fMRIPlot.add_confounds (lines 71-72).
add_confounds ==
    /\ Len(confounds) < MaxConfounds
    /\ \E c \in ConfoundArgs : confounds' = Append(confounds, c)
    /\ UNCHANGED <<func_data, ntsteps, segmentation, stat, map_range, tr, spikes,
                   nplots, grid, lines, newsegm, order, ax1, pc>>

\* fMRIPlot.add_spikes (lines 74-75).
add_spikes ==
    /\ Len(spikes) < MaxSpikes
    /\ \E sp \in SpikeArgs : spikes' = Append(spikes, sp)
    /\ UNCHANGED <<func_data, ntsteps, segmentation, stat, map_range, tr, confounds,
                   nplots, grid, lines, newsegm, order, ax1, pc>>

\* confoundplot, lines 363-373 and 435-439: the mean of the (normalized)
\* series.  tr None counts as 1 s.
series_mean(c, t) ==
    IF c[2].normalize THEN (c[1] * 100) \div (IF t = None THEN 100 ELSE t[1]) ELSE c[1]

\* The list `cutoff` names after line 439.
cutoff_after_insert(c, t) ==
    <<series_mean(c, t)>> \o (IF c[2].cutoff = None THEN <<>> ELSE c[2].cutoff[1])

\* The caller's entry after confoundplot(tseries, ..., **kwargs): **kwargs hands
\* over the descriptor's own list, and line 439 inserts into it; a None cutoff
\* is replaced by a fresh list the caller never sees.
entry_after_confoundplot(c, t) ==
    IF c[2].cutoff = None THEN c
    ELSE <<c[1], [c[2] EXCEPT !.cutoff = Some(cutoff_after_insert(c, t))]>>

Cell(kind, color, name) == [kind |-> kind, color |-> color, name |-> name]

confound_row_restarting(nspikes, i) == i

\* The value of grid_id when confound i (0-based) is drawn (lines 86-99).
confound_row(nspikes, i) == nspikes + i

\* plot(), lines 78-102: the grid rows (0-based r) and what is drawn in each.
\* grid[-1] is the last row.
grid_cells(spk, conf) ==
    LET nrows == 1 + Len(conf) + Len(spk)
    IN  [r1 \in 1..nrows |->
            {Cell("spikes", -1, spk[k][2]) : k \in {k \in 1..Len(spk) : k - 1 = r1 - 1}}
            \cup {Cell("confound", i - 1, conf[i][2].name) :
                    i \in {i \in 1..Len(conf) : confound_row(Len(spk), i - 1) = r1 - 1}}
            \cup (IF r1 = nrows THEN {Cell("carpet", -1, "")} ELSE {})]

\* fMRIPlot.plot (lines 77-104).
plot ==
    /\ nplots < MaxPlots
    /\ nplots' = nplots + 1
    /\ grid' = grid_cells(spikes, confounds)
    /\ lines' = [i \in 1..Len(confounds) |-> cutoff_after_insert(confounds[i], tr)]
    /\ confounds' = [i \in 1..Len(confounds) |-> entry_after_confoundplot(confounds[i], tr)]
    /\ fmricarpetplot
    /\ UNCHANGED <<func_data, ntsteps, segmentation, stat, map_range, tr, spikes>>

Next == add_confounds \/ add_spikes \/ plot

Spec == Init /\ [][Next]_vars

\* ---------------------------------------------------------------- claims
Called == pc # "ready"

\* The labels of the rows of the voxel-time matrix, and the label of the row
\* displayed k-th.
RowLabels == Masked(segmentation, segmentation)
Shown(k) == RowLabels[order[k] + 1]
NLabelled == Cardinality({i \in 1..Len(segmentation) : segmentation[i] > 0})

\* The bands as the specification words them (bounds inclusive) and as lines
\* 130-133 bound them; 0 is "in no band".
SpecBand(l) ==
    IF l >= 100 /\ l <= 199 THEN 1
    ELSE IF l >= 30 /\ l <= 99 THEN 2
    ELSE IF l = 255 THEN 3
    ELSE IF l > 0 /\ l < 10 THEN 4
    ELSE 0
CodeBand(l) ==
    IF l > 100 /\ l < 200 THEN 1
    ELSE IF l > 30 /\ l < 100 THEN 2
    ELSE IF l = 255 THEN 3
    ELSE IF l > 0 /\ l < 10 THEN 4
    ELSE 0

\* C1 as stated: when every non-zero label lies in a band with the inclusive
\* bounds 100-199 and 30-99, the displayed rows run through the bands in the
\* order cortical GM, deep GM, cerebellum, WM/CSF (so each band is contiguous).
C1_InclusiveBandsGrouped ==
    (Called /\ \A i \in 1..Len(RowLabels) : SpecBand(RowLabels[i]) # 0)
        => \A p, q \in 1..Len(order) : p < q => SpecBand(Shown(p)) <= SpecBand(Shown(q))

\* C1 amended: the same, for the bands as the code bounds them: cortical GM
\* 101-199, deep GM 31-99, cerebellum 255, WM/CSF below 10.
C1_CodeBandsGrouped ==
    (Called /\ \A i \in 1..Len(RowLabels) : CodeBand(RowLabels[i]) # 0)
        => \A p, q \in 1..Len(order) : p < q => CodeBand(Shown(p)) <= CodeBand(Shown(q))

\* C1 witness: three bands, stored in the reverse of the display order.
C1_Witness ==
    /\ Called
    /\ \A i \in 1..Len(RowLabels) : CodeBand(RowLabels[i]) # 0
    /\ Len(RowLabels) = NVox
    /\ RowLabels[1] = 5 /\ RowLabels[2] = 255 /\ RowLabels[NVox] = 120
    /\ order[1] = NVox - 1

\* C2 as stated: the displayed rows and the permutation count only the voxels
\* whose label lies in a band.
C2_UnbandedExcluded ==
    Called =>
        LET inband == Cardinality({i \in 1..Len(segmentation) : SpecBand(segmentation[i]) # 0})
        IN  Len(ax1.rows) = inband /\ Len(order) = inband

\* C2 amended: a voxel whose non-zero label lies in no band stays in the matrix
\* and in the permutation, with rank 0; the displayed rows are as many as the
\* voxels with label > 0, and every such voxel's series is one of them.
C2_UnbandedKept ==
    Called =>
        /\ Len(ax1.rows) = NLabelled
        /\ Len(order) = NLabelled
        /\ \A i \in 1..Len(segmentation) :
              segmentation[i] > 0 => func_data[i] \in Range(ax1.rows)
        /\ \A k \in 1..Len(RowLabels) : CodeBand(RowLabels[k]) = 0 => newsegm[k] = 0

\* C2 witness: label 20 next to banded labels.
C2_Witness ==
    /\ Called
    /\ segmentation[1] = 150 /\ segmentation[2] = 20 /\ segmentation[3] = 5
    /\ Len(ax1.rows) = NLabelled
    /\ 2 \in Range(ax1.rows)

\* C3 as stated: two voxels i < j of the same band are displayed i before j,
\* whatever their labels within the band.  (The bands are taken as the code
\* bounds them, so that no boundary label is involved.)
C3_BandKeepsOriginalOrder ==
    Called =>
        \A p, q \in 1..Len(order) :
            (CodeBand(Shown(p)) = CodeBand(Shown(q)) /\ CodeBand(Shown(p)) # 0
                /\ order[p] < order[q]) => p < q

\* C3 amended: within a band (as the code bounds it) the rows are displayed by
\* ascending label: of two voxels with different labels of one band, the one
\* with the smaller label comes first, wherever the two lie in the volume.
C3_BandSortedByLabel ==
    Called =>
        \A p, q \in 1..Len(order) :
            (CodeBand(Shown(p)) = CodeBand(Shown(q)) /\ CodeBand(Shown(p)) # 0
                /\ Shown(p) < Shown(q)) => p < q

\* C3 witness: 150 stored before 120, displayed after it.
C3_Witness ==
    /\ Called
    /\ \E p, q \in 1..Len(order) :
          /\ Shown(p) = 120 /\ Shown(q) = 150
          /\ p < q /\ order[q] < order[p]

\* C8: in every volume holding 150, 50, 255 and 5 once each, the matrix has
\* four rows, displayed as the row of 150, of 50, of 255, of 5.
C8_FourLabelsOrder ==
    Called =>
        /\ Len(ax1.rows) = 4
        /\ \A k \in 1..4 : segmentation[ax1.rows[k]] = <<150, 50, 255, 5>>[k]

\* C8 witness: the four voxels stored in the reverse order, with gaps.
C8_Witness ==
    /\ Called
    /\ segmentation[1] = 5 /\ segmentation[2] = 0 /\ segmentation[3] = 255
    /\ segmentation[NVox + 2] = 150
    /\ ax1.rows[1] = NVox + 2

\* C9: a call leaves the volume and the segmentation as they were and returns
\* in `order` each of the indices 0..N-1 once, N the number of voxels with
\* label > 0.
C9_OrderIsPermutation ==
    [][(pc = "ready" /\ pc' # "ready") =>
            /\ segmentation' = segmentation
            /\ func_data' = func_data
            /\ Len(order') = NLabelled
            /\ {order'[k] : k \in 1..Len(order')} = 0..(NLabelled - 1)]_vars

\* C9 witness: three or more rows, displayed in another order than stored.
C9_Witness ==
    /\ Called
    /\ Len(order) >= 3
    /\ order[1] # 0
    /\ segmentation[NVox] = 0

\* C4 as stated: a series of more than 800 time points is rendered with half
\* (plus or minus 1) of its columns, and each tick is labelled with its place
\* in the undecimated series: 2 * column * tr when tr is given, 2 * column (the
\* original frame index) when it is not.
C4_LongSeriesTicks ==
    (Called /\ ntsteps > long_cutoff) =>
        /\ 2 * ax1.cols.count - ntsteps \in -2..2
        /\ Len(ax1.xticklabels) = Len(ax1.xticks)
        /\ \A k \in 1..Len(ax1.xticks) :
              ax1.xticklabels[k] =
                  IF tr = None THEN fmt_int(2 * ax1.xticks[k])
                  ELSE fmt02(2 * ax1.xticks[k] * tr[1])

\* C5 as stated: with 800 time points or fewer and tr given, the call
\* completes, every column is rendered, and each tick is labelled
\* tr * frame index.
C5_ShortSeriesTicks ==
    (Called /\ ntsteps <= long_cutoff /\ tr # None) =>
        /\ pc = "done"
        /\ ax1.cols = every(ntsteps)
        /\ Len(ax1.xticklabels) = Len(ax1.xticks)
        /\ \A k \in 1..Len(ax1.xticks) :
              ax1.xticklabels[k] = fmt02(tr[1] * ax1.xticks[k])

\* C6 as stated: with map_range None the image gets (vmin, vmax) = (-2, 2) for
\* raw data and no range at all for a statistical map.
C6_NoRangeForStat ==
    (Called /\ map_range = None) =>
        ax1.vlim = (IF stat THEN None ELSE <<-2, 2>>)

\* C6 amended: with map_range None the image gets (vmin, vmax) = (-2, 2), for
\* raw data and for a statistical map alike.
C6_DefaultRange ==
    (Called /\ map_range = None) => ax1.vlim = <<-2, 2>>

\* C6 witness: a statistical map drawn without map_range.
C6_Witness ==
    /\ Called
    /\ stat
    /\ map_range = None
    /\ ax1.cmap = "Spectral_r"
    /\ ax1.vlim = <<-2, 2>>

\* C7 as stated: plot() leaves every stored confound entry, its cutoff list
\* included, as it was.
C7_PlotKeepsConfounds ==
    [][nplots' # nplots => confounds' = confounds]_vars

\* C10: plot() builds 1 + confounds + spikes rows and draws one plot in each:
\* the spikes in their insertion order, then the confounds in theirs, then the
\* carpet in the last row.
C10_GridLayout ==
    [][nplots' # nplots =>
            LET ns == Len(spikes)
                nc == Len(confounds)
            IN  /\ Len(grid') = 1 + nc + ns
                /\ \A k \in 1..ns : grid'[k] = {Cell("spikes", -1, spikes[k][2])}
                /\ \A i \in 1..nc :
                      grid'[ns + i] = {Cell("confound", i - 1, confounds[i][2].name)}
                /\ grid'[1 + nc + ns] = {Cell("carpet", -1, "")}]_vars

\* C10 witness: a plot of two spike plots and two confounds, one of them the
\* constructor's.
C10_Witness ==
    /\ nplots > 0
    /\ Len(grid) = 5
    /\ grid[1] = {Cell("spikes", -1, "Spikes B")}
    /\ grid[2] = {Cell("spikes", -1, "Spikes A")}
    /\ grid[3] = {Cell("confound", 0, "Global signal")}
    /\ grid[4] = {Cell("confound", 1, "FD")}
    /\ grid[5] = {Cell("carpet", -1, "")}

====
